---- MODULE Spec2Model ----
(***************************************************************************)
(* Content-drift monitoring function (runDailyMonitoring and the helpers   *)
(* it calls).  Text is a sequence of one-character strings so that         *)
(* lower-casing, whitespace collapsing, splitting and substring search are *)
(* computed as the TypeScript computes them.                               *)
(***************************************************************************)
EXTENDS Integers, Sequences, FiniteSets, TLC

VARIABLES targets, passNo, idx, results, notifications, trace, summary, now,
          call

vars == <<targets, passNo, idx, results, notifications, trace, summary, now,
          call>>

----------------------------------------------------------------------------
(* Bounds *)

MaxTargets == 2
MaxPasses == 2

----------------------------------------------------------------------------
(* getFrequencyMs.  Durations and clock readings are counted in units of   *)
(* 1000 ms: 30 * 24 * 60 * 60 * 1000 does not fit the 32-bit integers of   *)
(* the model checker, and no reading of the code depends on the last three *)
(* digits.                                                                 *)

\* Variant: the weekly case falls through to the daily interval
getFrequencyMsWeeklyAsDaily(frequency) ==
  CASE frequency = "daily" -> 24 * 60 * 60
    [] frequency = "weekly" -> 24 * 60 * 60
    [] frequency = "monthly" -> 30 * 24 * 60 * 60
    [] OTHER -> 24 * 60 * 60

getFrequencyMs(frequency) ==
  CASE frequency = "daily" -> 24 * 60 * 60
    [] frequency = "weekly" -> 7 * 24 * 60 * 60
    [] frequency = "monthly" -> 30 * 24 * 60 * 60
    [] OTHER -> 24 * 60 * 60

----------------------------------------------------------------------------
(* Text helpers: String.prototype.toLowerCase, replace(/\s+/g, ' '),       *)
(* split(' ') and includes                                                 *)

Lower(c) == IF c = "A" THEN "a" ELSE IF c = "B" THEN "b" ELSE c

toLowerCase(s) == [i \in 1..Len(s) |-> Lower(s[i])]

IsWhitespace(c) == c \in {" ", "\t", "\n"}

RECURSIVE CollapseWhitespace(_)
CollapseWhitespace(s) ==
  IF s = <<>> THEN <<>>
  ELSE IF IsWhitespace(Head(s))
       THEN IF Len(s) > 1 /\ IsWhitespace(s[2])
            THEN CollapseWhitespace(Tail(s))
            ELSE <<" ">> \o CollapseWhitespace(Tail(s))
       ELSE <<Head(s)>> \o CollapseWhitespace(Tail(s))

Normalize(s) == CollapseWhitespace(toLowerCase(s))

\* s.split(' '): the pieces between single spaces, empty pieces retained;
\* the empty text splits into one empty piece.
RECURSIVE SplitFrom(_, _)
SplitFrom(s, cur) ==
  IF s = <<>> THEN <<cur>>
  ELSE IF Head(s) = " "
       THEN <<cur>> \o SplitFrom(Tail(s), <<>>)
       ELSE SplitFrom(Tail(s), Append(cur, Head(s)))

\* Variant: the empty pieces are dropped
SplitDiscardEmpty(s) == SelectSeq(SplitFrom(s, <<>>), LAMBDA w : w # <<>>)

Split(s) == SplitFrom(s, <<>>)

\* hay.includes(needle): needle occurs as a contiguous substring
Includes(hay, needle) ==
  \E k \in 0..(Len(hay) - Len(needle)) :
     \A j \in 1..Len(needle) : hay[k + j] = needle[j]

----------------------------------------------------------------------------
(* isRecommendationImplemented *)

MatchedWords(content, recommendation) ==
  LET normalizedContent == Normalize(content)
      words == Split(Normalize(recommendation.recommendedContent))
  IN  SelectSeq(words, LAMBDA word : Includes(normalizedContent, word))

\* Variant: the threshold is exclusive
isRecommendationImplementedStrict(content, recommendation) ==
  LET words == Split(Normalize(recommendation.recommendedContent))
      matchedWords == MatchedWords(content, recommendation)
  IN  Len(words) > 0 /\ 10 * Len(matchedWords) > 7 * Len(words)

isRecommendationImplemented(content, recommendation) ==
  LET words == Split(Normalize(recommendation.recommendedContent))
      matchedWords == MatchedWords(content, recommendation)
  IN  \* matchedWords.length / words.length >= 0.7; 0 / 0 is NaN, and
      \* NaN >= 0.7 is false
      Len(words) > 0 /\ 10 * Len(matchedWords) >= 7 * Len(words)

----------------------------------------------------------------------------
(* Page snapshots the scrape can return: the metadata and the markdown     *)

PageA == [metadata |-> [title |-> "Sample Page Title",
                        description |-> "Sample page description"],
          markdown |-> <<"a", " ", " ", "B">>]

PageB == [metadata |-> [title |-> "Sample Page Title",
                        description |-> "Sample page description"],
          markdown |-> <<"c">>]

Pages == {PageA, PageB}

(* generateContentHash: SHA-256 over JSON.stringify(metadata) + content,   *)
(* rendered as 64 hex digits.  The digest is a fixed table, one distinct   *)
(* non-empty hex string per distinct combined content.                     *)

CombinedContent(metadata, content) ==
  <<metadata.title, metadata.description, content>>

DigestInputs ==
  << CombinedContent(PageA.metadata, PageA.markdown),
     CombinedContent(PageB.metadata, PageB.markdown) >>

HexDigests == << "9f86d081884c7d65", "60303ae22b998861" >>

Sha256Hex(combinedContent) ==
  HexDigests[CHOOSE k \in 1..Len(DigestInputs) : DigestInputs[k] = combinedContent]

generateContentHash(metadata, content) ==
  Sha256Hex(CombinedContent(metadata, content))

----------------------------------------------------------------------------
(* The monitoring targets the pass reads from the store                    *)

Rec1(applied) == [id |-> "rec_001",
                  recommendedContent |-> <<"A", " ", "b">>,
                  applied |-> applied]

Rec2(applied) == [id |-> "rec_002",
                  recommendedContent |-> <<"c">>,
                  applied |-> applied]

RecommendationLists ==
  { <<>>, <<Rec1(TRUE)>>, <<Rec1(FALSE), Rec2(FALSE)>> }

StoredHashes ==
  { "", generateContentHash(PageA.metadata, PageA.markdown) }

TargetId(i) == "target_00" \o ToString(i)

\* The check frequencies of the stored targets: the first is daily, the
\* second weekly, the third monthly, and so on in turn
FrequencyOfTarget(i) ==
  CASE i % 3 = 1 -> "daily"
    [] i % 3 = 2 -> "weekly"
    [] OTHER -> "monthly"

MakeTarget(i, hash, recs) ==
  [id |-> TargetId(i),
   lastContentHash |-> hash,
   recommendations |-> recs,
   checkFrequency |-> FrequencyOfTarget(i),
   lastChecked |-> 0]

TargetLists ==
  UNION { { [i \in 1..n |-> MakeTarget(i, h[i], r[i])] :
              h \in [1..n -> StoredHashes], r \in [1..n -> RecommendationLists] } :
          n \in 0..MaxTargets }

----------------------------------------------------------------------------
(* checkWebsiteChanges                                                     *)

ContentChanged(currentContentHash, lastContentHash) ==
  currentContentHash # lastContentHash

RecIds(recs) == [k \in 1..Len(recs) |-> recs[k].id]

\* Variant: the matcher runs also when the hash is unchanged
ImplementedRecommendationsUnguarded(contentChanged, markdown, recommendations) ==
  RecIds(SelectSeq(recommendations,
                   LAMBDA r : isRecommendationImplemented(markdown, r)))

ImplementedRecommendations(contentChanged, markdown, recommendations) ==
  IF contentChanged
  THEN RecIds(SelectSeq(recommendations,
                        LAMBDA r : isRecommendationImplemented(markdown, r)))
  ELSE <<>>

\* Variant: the labels are produced whether or not the hash changed
ChangesDetectedUnguarded(contentChanged, metadata, lastContentHash) ==
  <<"Content hash changed">>
  \o (IF metadata.title # lastContentHash
      THEN <<"Title tag modified">> ELSE <<>>)
  \o (IF metadata.description # lastContentHash
      THEN <<"Meta description modified">> ELSE <<>>)

ChangesDetected(contentChanged, metadata, lastContentHash) ==
  IF contentChanged
  THEN <<"Content hash changed">>
       \o (IF metadata.title # lastContentHash
           THEN <<"Title tag modified">> ELSE <<>>)
       \o (IF metadata.description # lastContentHash
           THEN <<"Meta description modified">> ELSE <<>>)
  ELSE <<>>

\* Variant: the recommendations are evaluated whether or not the hash changed
RecommendationsImplementedUnguarded(contentChanged, markdown, recommendations) ==
  \E k \in 1..Len(recommendations) :
     isRecommendationImplemented(markdown, recommendations[k])

RecommendationsImplemented(contentChanged, markdown, recommendations) ==
  contentChanged
  /\ \E k \in 1..Len(recommendations) :
        isRecommendationImplemented(markdown, recommendations[k])

checkWebsiteChanges(target, page, timestamp) ==
  LET currentContentHash == generateContentHash(page.metadata, page.markdown)
      contentChanged == ContentChanged(currentContentHash, target.lastContentHash)
      implementedRecommendations ==
        ImplementedRecommendations(contentChanged, page.markdown,
                                   target.recommendations)
  IN  [targetId |-> target.id,
       contentChanged |-> contentChanged,
       recommendationsImplemented |->
         RecommendationsImplemented(contentChanged, page.markdown,
                                    target.recommendations),
       newContentHash |-> currentContentHash,
       changesDetected |-> ChangesDetected(contentChanged, page.metadata,
                                           target.lastContentHash),
       implementedRecommendations |-> implementedRecommendations,
       checkTimestamp |-> timestamp]

----------------------------------------------------------------------------
(* runDailyMonitoring: the loop body, the catch block and the response     *)

\* Variant: the implementation notice goes out on any content change
ShouldSendImplementationOnChange(result) == result.contentChanged

ShouldSendImplementation(result) == result.recommendationsImplemented

\* Variant: the alert condition without the "not implemented" conjunct
ShouldSendAlertOnAnyChange(result) == result.contentChanged

ShouldSendAlert(result) ==
  result.contentChanged /\ ~result.recommendationsImplemented

ErrorLabel(message) == "Error: " \o message

\* Variant: the error result reports a content change
ErrorResultChanged(target, message, timestamp) ==
  [targetId |-> target.id,
   contentChanged |-> TRUE,
   recommendationsImplemented |-> FALSE,
   newContentHash |-> target.lastContentHash,
   changesDetected |-> <<ErrorLabel(message)>>,
   implementedRecommendations |-> <<>>,
   checkTimestamp |-> timestamp]

\* Variant: the error result carries a blank hash
ErrorResultBlankHash(target, message, timestamp) ==
  [targetId |-> target.id,
   contentChanged |-> FALSE,
   recommendationsImplemented |-> FALSE,
   newContentHash |-> "",
   changesDetected |-> <<ErrorLabel(message)>>,
   implementedRecommendations |-> <<>>,
   checkTimestamp |-> timestamp]

ErrorResult(target, message, timestamp) ==
  [targetId |-> target.id,
   contentChanged |-> FALSE,
   recommendationsImplemented |-> FALSE,
   newContentHash |-> target.lastContentHash,
   changesDetected |-> <<ErrorLabel(message)>>,
   implementedRecommendations |-> <<>>,
   checkTimestamp |-> timestamp]

ImplementationNotification(target, result) ==
  [type |-> "recommendation_implemented",
   targetId |-> target.id,
   implementedRecommendations |-> result.implementedRecommendations,
   changesDetected |-> <<>>,
   missedRecommendations |-> 0,
   timestamp |-> result.checkTimestamp]

Count(seq, P(_)) == Len(SelectSeq(seq, P))

ContentChangeAlert(target, result) ==
  [type |-> "content_change_alert",
   targetId |-> target.id,
   implementedRecommendations |-> <<>>,
   changesDetected |-> result.changesDetected,
   missedRecommendations |->
     Count(target.recommendations, LAMBDA r : ~r.applied),
   timestamp |-> result.checkTimestamp]

\* Variant: the applied flags are rewritten from the current match
CommitTargetRecomputed(target, result) ==
  [target EXCEPT !.recommendations =
     [k \in 1..Len(target.recommendations) |->
        [target.recommendations[k] EXCEPT !.applied =
           \E j \in 1..Len(result.implementedRecommendations) :
              result.implementedRecommendations[j] = target.recommendations[k].id]]]

\* What the pass writes back to the target after a check: nothing; the
\* result is pushed to the results array and the target object is left as
\* it was read.
CommitTarget(target, result) == target

\* Variant: the new fingerprint is written to every target of the list
StoreAfterCheckAll(store, i, result) ==
  [k \in 1..Len(store) |->
     [store[k] EXCEPT !.lastContentHash = result.newContentHash]]

\* The targets after the iteration for the i-th one: the loop variable is
\* the only target object the iteration has in hand
StoreAfterCheck(store, i, result) ==
  [store EXCEPT ![i] = CommitTarget(store[i], result)]

\* Variant: a failure leaves the loop
IndexAfterFailureAbort(i, n) == n + 1

\* The loop index after the catch block has recorded a failure
IndexAfterFailure(i, n) == i + 1

\* Variant: totalChecked leaves out the error results
SummaryWithoutErrors(res) ==
  [totalChecked |-> Count(res, LAMBDA r : r.changesDetected = <<>>
                                          \/ r.contentChanged),
   contentChanges |-> Count(res, LAMBDA r : r.contentChanged),
   recommendationsImplemented |->
     Count(res, LAMBDA r : r.recommendationsImplemented)]

Summary(res) ==
  [totalChecked |-> Len(res),
   contentChanges |-> Count(res, LAMBDA r : r.contentChanged),
   recommendationsImplemented |->
     Count(res, LAMBDA r : r.recommendationsImplemented)]

NoResponse == [status |-> 0]

\* scheduleNextRun: the next run is logged for 24 hours from now
scheduleNextRun(time) == time + 24 * 60 * 60

\* No request to the other endpoints is being served
NoCall == [op |-> "none"]

\* The page recorded in the trace of an iteration whose fetch threw
NoPage == [metadata |-> [title |-> "", description |-> ""], markdown |-> <<>>]

----------------------------------------------------------------------------
(* State machine *)

Init ==
  /\ targets \in TargetLists
  /\ passNo = 0
  /\ idx = 0
  /\ results = <<>>
  /\ notifications = <<>>
  /\ trace = <<>>
  /\ summary = NoResponse
  /\ now = 1
  /\ call = NoCall

\* POST /monitor arrives: the targets are read and the results array is empty
StartPassBody ==
  /\ idx = 0
  /\ passNo < MaxPasses
  /\ passNo' = passNo + 1
  /\ idx' = 1
  /\ results' = <<>>
  /\ notifications' = <<>>
  /\ trace' = <<>>
  /\ summary' = NoResponse
  /\ now' = now + 1
  /\ UNCHANGED targets

StartPass == StartPassBody /\ UNCHANGED call

\* One iteration of the for loop in which checkWebsiteChanges throws
CheckFails ==
  /\ idx \in 1..Len(targets)
  /\ results' = Append(results, ErrorResult(targets[idx], "fetch failed", now))
  /\ trace' = Append(trace, [target |-> idx, outcome |-> "checkFailed",
                              page |-> NoPage])
  /\ idx' = IndexAfterFailure(idx, Len(targets))
  /\ now' = now + 1
  /\ UNCHANGED <<targets, passNo, notifications, summary, call>>

\* One iteration of the for loop in which checkWebsiteChanges returns
CheckSucceeds(page, implSendThrows, alertSendThrows) ==
  /\ idx \in 1..Len(targets)
  /\ LET target == targets[idx]
         result == checkWebsiteChanges(target, page, now)
         sendImpl == ShouldSendImplementation(result)
         implThrew == sendImpl /\ implSendThrows
         sendAlert == ~implThrew /\ ShouldSendAlert(result)
         alertThrew == sendAlert /\ alertSendThrows
         threw == implThrew \/ alertThrew
     IN  /\ results' =
              Append(results, result)
              \o (IF threw THEN <<ErrorResult(target, "send failed", now)>>
                  ELSE <<>>)
         /\ notifications' =
              notifications
              \o (IF sendImpl
                  THEN <<ImplementationNotification(target, result)>>
                  ELSE <<>>)
              \o (IF sendAlert THEN <<ContentChangeAlert(target, result)>>
                  ELSE <<>>)
         /\ trace' = Append(trace,
              [target |-> idx,
               outcome |-> IF threw THEN "sendFailed" ELSE "checked",
               page |-> page])
         /\ targets' = StoreAfterCheck(targets, idx, result)
         /\ idx' = IF threw THEN IndexAfterFailure(idx, Len(targets))
                   ELSE idx + 1
  /\ now' = now + 1
  /\ UNCHANGED <<passNo, summary, call>>

\* The loop is over: the response with the summary is returned
FinishPass ==
  /\ idx = Len(targets) + 1
  /\ summary' = [status |-> 200, summary |-> Summary(results),
                  nextRun |-> scheduleNextRun(now)]
  /\ idx' = 0
  /\ UNCHANGED <<targets, passNo, results, notifications, trace, now, call>>

Next ==
  \/ StartPass
  \/ CheckFails
  \/ \E page \in Pages, implSendThrows \in BOOLEAN, alertSendThrows \in BOOLEAN :
       CheckSucceeds(page, implSendThrows, alertSendThrows)
  \/ FinishPass

Spec == Init /\ [][Next]_vars

----------------------------------------------------------------------------
(* Vocabulary of the properties *)

ErrorLabels == {ErrorLabel("fetch failed"), ErrorLabel("send failed")}

IsErrorResult(r) ==
  r.changesDetected # <<>> /\ r.changesDetected[1] \in ErrorLabels

\* The result checkWebsiteChanges returned for the k-th iteration of the pass
ResultOfIteration(k) ==
  LET id == targets[trace[k].target].id
      hits == SelectSeq(results,
                LAMBDA r : r.targetId = id /\ ~IsErrorResult(r))
  IN  hits[1]

Checked(k) == trace[k].outcome \in {"checked", "sendFailed"}

NotifiedAs(id, type) ==
  \E n \in 1..Len(notifications) :
     notifications[n].targetId = id /\ notifications[n].type = type

PassFinished == summary.status = 200

----------------------------------------------------------------------------
(* C1: a target whose stored lastContentHash is the empty string yields    *)
(* contentChanged = false in a monitoring pass, whatever page is fetched.  *)
C1_FirstRunBaseline ==
  \A k \in 1..Len(trace) :
     (Checked(k) /\ targets[trace[k].target].lastContentHash = "")
        => ~ResultOfIteration(k).contentChanged

(* C2: in every result of a pass, successful or error,                     *)
(* recommendationsImplemented implies contentChanged.                      *)
C2_ImplementedImpliesChanged ==
  \A k \in 1..Len(results) :
     results[k].recommendationsImplemented => results[k].contentChanged

C2_Witness ==
  /\ \E k \in 1..Len(results) : results[k].recommendationsImplemented
  /\ \E k \in 1..Len(results) : IsErrorResult(results[k])
  /\ \E k \in 1..Len(trace) :
        /\ Checked(k)
        /\ ~ResultOfIteration(k).contentChanged
        /\ \E j \in 1..Len(targets[trace[k].target].recommendations) :
              isRecommendationImplemented(trace[k].page.markdown,
                targets[trace[k].target].recommendations[j])

(* C3: for no target of a pass are both the implementation-success         *)
(* notification and the content-change alert emitted.                      *)
C3_NotificationExclusivity ==
  \A i \in 1..Len(targets) :
     ~(NotifiedAs(targets[i].id, "recommendation_implemented")
       /\ NotifiedAs(targets[i].id, "content_change_alert"))

C3_Witness ==
  \E k \in 1..Len(trace) :
     /\ Checked(k)
     /\ ResultOfIteration(k).contentChanged
     /\ ResultOfIteration(k).recommendationsImplemented
     /\ NotifiedAs(targets[trace[k].target].id, "recommendation_implemented")

(* C4: for a successfully checked target the implementation notification   *)
(* is emitted iff recommendationsImplemented, the content-change alert iff *)
(* contentChanged and not recommendationsImplemented, and neither when     *)
(* nothing changed and nothing was implemented.                            *)
C4_NotificationPolicy ==
  \A k \in 1..Len(trace) :
     Checked(k) =>
       LET r == ResultOfIteration(k)
           id == targets[trace[k].target].id
       IN  /\ NotifiedAs(id, "recommendation_implemented")
                <=> r.recommendationsImplemented
           /\ NotifiedAs(id, "content_change_alert")
                <=> (r.contentChanged /\ ~r.recommendationsImplemented)
           /\ (~r.contentChanged /\ ~r.recommendationsImplemented)
                => \A n \in 1..Len(notifications) :
                      notifications[n].targetId # id

C4_Witness ==
  /\ \E k \in 1..Len(trace) :
        /\ Checked(k)
        /\ ResultOfIteration(k).contentChanged
        /\ ~ResultOfIteration(k).recommendationsImplemented
        /\ NotifiedAs(targets[trace[k].target].id, "content_change_alert")
  /\ \E k \in 1..Len(trace) :
        /\ Checked(k)
        /\ ~ResultOfIteration(k).contentChanged
        /\ ~NotifiedAs(targets[trace[k].target].id, "content_change_alert")

(* C5: when the check of a target fails, the target's stored               *)
(* lastContentHash and the applied flags of its recommendations are the    *)
(* same after the iteration as before it, and the error result's           *)
(* newContentHash is the stored lastContentHash.                           *)
C5_FailedPassKeepsBaseline ==
  [][ (Len(trace') = Len(trace) + 1
       /\ trace'[Len(trace')].outcome = "checkFailed")
      => LET i == trace'[Len(trace')].target
             r == results'[Len(results')]
         IN  /\ targets'[i].lastContentHash = targets[i].lastContentHash
             /\ targets'[i].recommendations = targets[i].recommendations
             /\ IsErrorResult(r)
             /\ r.targetId = targets[i].id
             /\ r.newContentHash = targets[i].lastContentHash ]_vars

C5_Witness ==
  \E k \in 1..Len(trace) :
     /\ trace[k].outcome = "checkFailed"
     /\ targets[trace[k].target].lastContentHash # ""
     /\ targets[trace[k].target].recommendations # <<>>

(* C6: when the pass is over every target of the list has been checked and *)
(* has a result of its own, also when the check of another target failed.  *)
C6_BatchIsolation ==
  PassFinished =>
    \A i \in 1..Len(targets) :
       /\ \E k \in 1..Len(trace) : trace[k].target = i
       /\ \E k \in 1..Len(results) : results[k].targetId = targets[i].id

C6_Witness ==
  /\ PassFinished
  /\ Len(trace) >= 2
  /\ trace[1].outcome = "checkFailed"
  /\ trace[2].outcome = "checked"
  /\ ~IsErrorResult(ResultOfIteration(2))

NumOutcome(o) == Count(trace, LAMBDA e : e.outcome = o)

C8_MonotonicApplied ==
  [][ \A i \in 1..Len(targets) :
        \A k \in 1..Len(targets[i].recommendations) :
           targets[i].recommendations[k].applied
             => /\ i \in 1..Len(targets')
                /\ k \in 1..Len(targets'[i].recommendations)
                /\ targets'[i].recommendations[k].applied ]_vars

C8_Witness ==
  /\ passNo = 2
  /\ \E k \in 1..Len(trace) :
        /\ Checked(k)
        /\ ResultOfIteration(k).contentChanged
        /\ \E j \in 1..Len(targets[trace[k].target].recommendations) :
              /\ targets[trace[k].target].recommendations[j].applied
              /\ ~isRecommendationImplemented(trace[k].page.markdown,
                    targets[trace[k].target].recommendations[j])

(* C9: after a successful check in which content changed, every            *)
(* recommendation the matcher accepted has applied = true on the target    *)
(* and its id is among the result's implemented ids.                       *)
C9_MatchedMarkedApplied ==
  \A k \in 1..Len(trace) :
     (Checked(k) /\ ResultOfIteration(k).contentChanged) =>
       LET t == targets[trace[k].target]
           r == ResultOfIteration(k)
       IN  \A j \in 1..Len(t.recommendations) :
              isRecommendationImplemented(trace[k].page.markdown,
                                          t.recommendations[j])
                => /\ t.recommendations[j].applied
                   /\ \E m \in 1..Len(r.implementedRecommendations) :
                         r.implementedRecommendations[m] = t.recommendations[j].id

(* C10: after every successful check the target's stored lastContentHash   *)
(* is the newly computed hash and its lastChecked is the time of the       *)
(* check.                                                                  *)
C10_HashAndLastCheckedPersisted ==
  \A k \in 1..Len(trace) :
     Checked(k) =>
       /\ targets[trace[k].target].lastContentHash
            = ResultOfIteration(k).newContentHash
       /\ targets[trace[k].target].lastChecked
            = ResultOfIteration(k).checkTimestamp

(* C11: a pass checks a target iff lastChecked + interval(checkFrequency)  *)
(* <= now; a target that is not yet due gets no result.                    *)
IsDue(target) ==
  target.lastChecked + getFrequencyMs(target.checkFrequency) <= now

C11_DueSelection ==
  /\ \A k \in 1..Len(trace) : IsDue(targets[trace[k].target])
  /\ PassFinished =>
       \A i \in 1..Len(targets) :
          IsDue(targets[i]) => \E k \in 1..Len(trace) : trace[k].target = i

(* C15: when the check of a target succeeded and sending its notification  *)
(* fails, the successful result stays reported and the target gets no      *)
(* error outcome in the pass.                                              *)
C15_DispatchFailureNonFatal ==
  \A k \in 1..Len(trace) :
     trace[k].outcome = "sendFailed" =>
       LET id == targets[trace[k].target].id
       IN  /\ \E j \in 1..Len(results) :
                results[j].targetId = id /\ ~IsErrorResult(results[j])
           /\ ~\E j \in 1..Len(results) :
                results[j].targetId = id /\ IsErrorResult(results[j])

(* C19: when the new hash equals the non-empty stored lastContentHash the  *)
(* result has contentChanged = false and no implemented ids, and no        *)
(* notification is emitted for the target.                                 *)
C19_UnchangedHashQuiet ==
  \A k \in 1..Len(trace) :
     LET t == targets[trace[k].target]
     IN  (Checked(k)
          /\ t.lastContentHash # ""
          /\ generateContentHash(trace[k].page.metadata, trace[k].page.markdown)
               = t.lastContentHash)
         => /\ ~ResultOfIteration(k).contentChanged
            /\ ~ResultOfIteration(k).recommendationsImplemented
            /\ ResultOfIteration(k).implementedRecommendations = <<>>
            /\ \A n \in 1..Len(notifications) :
                  notifications[n].targetId # t.id

C19_Witness ==
  \E k \in 1..Len(trace) :
     LET t == targets[trace[k].target]
     IN  /\ Checked(k)
         /\ t.lastContentHash # ""
         /\ ResultOfIteration(k).newContentHash = t.lastContentHash
         /\ \E j \in 1..Len(t.recommendations) :
               isRecommendationImplemented(trace[k].page.markdown,
                                           t.recommendations[j])

(* C20: in a pass where content changed, a recommendation with applied =   *)
(* true is not evaluated: its id is not among the result's implemented ids *)
(* and it causes no implementation-success notification.                   *)
C20_OnlyPendingEvaluated ==
  \A k \in 1..Len(trace) :
     Checked(k) =>
       LET t == targets[trace[k].target]
           r == ResultOfIteration(k)
       IN  \A j \in 1..Len(t.recommendations) :
              t.recommendations[j].applied =>
                /\ \A m \in 1..Len(r.implementedRecommendations) :
                      r.implementedRecommendations[m] # t.recommendations[j].id
                /\ \A n \in 1..Len(notifications) :
                      (notifications[n].targetId = t.id
                       /\ notifications[n].type = "recommendation_implemented")
                        => \A m \in 1..Len(notifications[n].implementedRecommendations) :
                              notifications[n].implementedRecommendations[m]
                                # t.recommendations[j].id

ResultsOf(id) == SelectSeq(results, LAMBDA r : r.targetId = id)

(* C23: when the check of a target fails, the pass records for it one      *)
(* result with contentChanged = false, recommendationsImplemented = false, *)
(* no implemented ids and a changesDetected entry "Error: <message>", and  *)
(* emits no notification for it.                                           *)
C23_FailurePath ==
  \A k \in 1..Len(trace) :
     trace[k].outcome = "checkFailed" =>
       LET t == targets[trace[k].target]
           rs == ResultsOf(t.id)
       IN  /\ Len(rs) = 1
           /\ ~rs[1].contentChanged
           /\ ~rs[1].recommendationsImplemented
           /\ rs[1].implementedRecommendations = <<>>
           /\ rs[1].changesDetected = <<ErrorLabel("fetch failed")>>
           /\ \A n \in 1..Len(notifications) :
                 notifications[n].targetId # t.id

C23_Witness ==
  \E k \in 1..Len(trace) :
     /\ trace[k].outcome = "checkFailed"
     /\ targets[trace[k].target].lastContentHash = ""
     /\ targets[trace[k].target].recommendations # <<>>
     /\ Len(notifications) > 0

(* C29: in every result recommendationsImplemented is true iff             *)
(* implementedRecommendations is non-empty, every implemented id is the id *)
(* of a recommendation of that target, and changesDetected of a non-error  *)
(* result is empty iff contentChanged is false.                            *)
TargetWithId(id) == targets[CHOOSE i \in 1..Len(targets) : targets[i].id = id]

C29_ResultWellFormed ==
  \A k \in 1..Len(results) :
     LET r == results[k]
     IN  /\ r.recommendationsImplemented <=> r.implementedRecommendations # <<>>
         /\ \A m \in 1..Len(r.implementedRecommendations) :
               \E j \in 1..Len(TargetWithId(r.targetId).recommendations) :
                  TargetWithId(r.targetId).recommendations[j].id
                    = r.implementedRecommendations[m]
         /\ ~IsErrorResult(r) => (r.changesDetected = <<>> <=> ~r.contentChanged)

C29_Witness ==
  /\ \E k \in 1..Len(results) :
        /\ results[k].recommendationsImplemented
        /\ results[k].implementedRecommendations # <<>>
        /\ results[k].changesDetected # <<>>
  /\ \E k \in 1..Len(results) :
        /\ ~IsErrorResult(results[k])
        /\ ~results[k].contentChanged
        /\ results[k].changesDetected = <<>>

(* C24: each processed target contributes exactly one result, so the      *)
(* summary's checked count is the number of targets processed and its      *)
(* changed and implemented counts are the numbers of targets with          *)
(* contentChanged and with recommendationsImplemented, also when a         *)
(* notification send throws.                                               *)
C24_SummaryConsistency ==
  PassFinished =>
    /\ \A k \in 1..Len(trace) :
          Len(ResultsOf(targets[trace[k].target].id)) = 1
    /\ summary.summary.totalChecked = Len(trace)
    /\ summary.summary.contentChanges
         = Cardinality({k \in 1..Len(trace) :
              Checked(k) /\ ResultOfIteration(k).contentChanged})
    /\ summary.summary.recommendationsImplemented
         = Cardinality({k \in 1..Len(trace) :
              Checked(k) /\ ResultOfIteration(k).recommendationsImplemented})

(* C25: after a target is checked its next-due time is the time of the     *)
(* check plus the interval of its own checkFrequency (7 days for a weekly  *)
(* target, 30 days for a monthly one), not 24 hours after the run.         *)
C25_NextDuePerTarget ==
  PassFinished =>
    \A k \in 1..Len(trace) :
       Checked(k) =>
         summary.nextRun
           = ResultOfIteration(k).checkTimestamp
             + getFrequencyMs(targets[trace[k].target].checkFrequency)

\* The page whose fingerprint a stored hash is
PreviousPage(hash) ==
  CHOOSE p \in Pages : generateContentHash(p.metadata, p.markdown) = hash

HasLabel(r, label) ==
  \E n \in 1..Len(r.changesDetected) : r.changesDetected[n] = label

(* C26: when content changed, 'Title tag modified' is among the labels     *)
(* only if the title differs from the title at the previous check and      *)
(* 'Meta description modified' only if the description differs; a change   *)
(* of the body alone produces neither label.                               *)
C26_LabelsNameChangedFields ==
  \A k \in 1..Len(trace) :
     LET t == targets[trace[k].target]
     IN  (Checked(k) /\ t.lastContentHash # ""
          /\ ResultOfIteration(k).contentChanged)
         => LET before == PreviousPage(t.lastContentHash).metadata
                after == trace[k].page.metadata
                r == ResultOfIteration(k)
            IN  /\ HasLabel(r, "Title tag modified")
                     => after.title # before.title
                /\ HasLabel(r, "Meta description modified")
                     => after.description # before.description

----------------------------------------------------------------------------
(* C27: an iteration of the pass, successful or failed, for one target    *)
(* leaves the lastContentHash, the lastChecked and the recommendations     *)
(* (applied flags included) of every other target as they were.            *)
C27_Frame ==
  [][ Len(trace') = Len(trace) + 1
      => /\ Len(targets') = Len(targets)
         /\ \A i \in 1..Len(targets) :
               i # trace'[Len(trace')].target
                 => /\ targets'[i].lastContentHash = targets[i].lastContentHash
                    /\ targets'[i].lastChecked = targets[i].lastChecked
                    /\ targets'[i].recommendations = targets[i].recommendations
    ]_vars

C27_Witness ==
  /\ Len(targets) >= 2
  /\ \E k \in 1..Len(trace) :
        /\ Checked(k)
        /\ ResultOfIteration(k).contentChanged
        /\ \E i \in 1..Len(targets) :
              /\ i # trace[k].target
              /\ targets[i].lastContentHash
                    # ResultOfIteration(k).newContentHash

\* The implementation-success notifications of the current pass name
\* recommendation rec of target id
NoticedImplemented(id, rec) ==
  \E n \in 1..Len(notifications) :
     /\ notifications[n].type = "recommendation_implemented"
     /\ notifications[n].targetId = id
     /\ \E j \in 1..Len(notifications[n].implementedRecommendations) :
           notifications[n].implementedRecommendations[j] = rec

(* isRecommendationImplemented on its own: the suggested text is a list of *)
(* one-letter words joined by single spaces, the body holds a set of       *)
(* letters separated by runs of whitespace.                                *)

MaxTokens == 10

TokenLetters == {"a", "B"}

BodyLetters == {"a", "b"}

RECURSIVE JoinWords(_)
JoinWords(words) ==
  IF words = <<>> THEN <<>>
  ELSE IF Len(words) = 1 THEN <<words[1]>>
  ELSE <<words[1], " ">> \o JoinWords(Tail(words))

BodyOf(letters) ==
  (IF "a" \in letters THEN <<"A", " ", "\t">> ELSE <<>>)
  \o <<"c">>
  \o (IF "b" \in letters THEN <<"\n", " ", "b">> ELSE <<>>)

MatcherInputs ==
  UNION { { [op |-> "matcher", tokens |-> t, letters |-> l,
             done |-> FALSE, verdict |-> FALSE] :
              t \in [1..n -> TokenLetters], l \in SUBSET BodyLetters } :
          n \in 1..MaxTokens }

InitMatcher ==
  /\ targets = <<>>
  /\ passNo = 0
  /\ idx = 0
  /\ results = <<>>
  /\ notifications = <<>>
  /\ trace = <<>>
  /\ summary = NoResponse
  /\ now = 1
  /\ call \in MatcherInputs

EvaluateMatcher ==
  /\ call.op = "matcher"
  /\ ~call.done
  /\ call' = [call EXCEPT
       !.done = TRUE,
       !.verdict = isRecommendationImplemented(BodyOf(call.letters),
                     [id |-> "rec_001",
                      recommendedContent |-> JoinWords(call.tokens),
                      applied |-> FALSE])]
  /\ UNCHANGED <<targets, passNo, idx, results, notifications, trace,
                 summary, now>>

NextMatcher == EvaluateMatcher

SpecMatcher == InitMatcher /\ [][NextMatcher]_vars

MatchedTokenCount ==
  Cardinality({i \in 1..Len(call.tokens) : Lower(call.tokens[i]) \in call.letters})

(* C12: the matcher answers true iff 10 * matched >= 7 * total; exactly    *)
(* 70% of the tokens present is accepted, one token fewer is refused.      *)
C12_MatcherThreshold ==
  (call.op = "matcher" /\ call.done) =>
     (call.verdict <=> 10 * MatchedTokenCount >= 7 * Len(call.tokens))

C12_Witness ==
  /\ call.op = "matcher"
  /\ call.done
  /\ Len(call.tokens) = 10
  /\ MatchedTokenCount = 7
  /\ call.verdict

----------------------------------------------------------------------------
(* scheduleMonitoring (POST /schedule)                                     *)

MaxUrls == 2

PageUrls == {"https://example.com/about", "https://example.com/services"}

\* The JSON body: a field may be missing; pageUrls may be something that is
\* not an array (a string here)
ScheduleBodies ==
  { [hasWebsiteUrl |-> hw, websiteUrl |-> w,
     pageUrlsKind |-> k, pageUrls |-> p,
     hasFrequency |-> hf, frequency |-> f] :
       hw \in BOOLEAN, w \in {"", "https://example.com"},
       k \in {"missing", "string", "array"},
       p \in UNION { [1..n -> PageUrls] : n \in 0..MaxUrls },
       hf \in BOOLEAN,
       f \in {"daily", "weekly", "monthly", "hourly"} }

\* A missing field is not told apart by the value left in its slot
NormalBody(b) ==
  /\ (~b.hasWebsiteUrl => b.websiteUrl = "")
  /\ (b.pageUrlsKind # "array" => b.pageUrls = <<>>)
  /\ (~b.hasFrequency => b.frequency = "daily")

\* const { websiteUrl, pageUrls, frequency = 'daily' } = body
FrequencyOf(body) == IF body.hasFrequency THEN body.frequency ELSE "daily"

\* Variant: pageUrls is not tested for being an array
ScheduleRejectsNoArrayCheck(body) ==
  \/ ~body.hasWebsiteUrl
  \/ body.websiteUrl = ""
  \/ body.pageUrlsKind = "missing"

\* !websiteUrl || !pageUrls || !Array.isArray(pageUrls)
ScheduleRejects(body) ==
  \/ ~body.hasWebsiteUrl
  \/ body.websiteUrl = ""
  \/ body.pageUrlsKind = "missing"
  \/ body.pageUrlsKind # "array"

\* Variant: the targets come out in reverse order of pageUrls
CreateTargetsReversed(websiteUrl, pageUrls, frequency, readings) ==
  [index \in 1..Len(pageUrls) |->
     [id |-> <<"target", readings[3 * index - 2], index - 1>>,
      websiteUrl |-> websiteUrl,
      pageUrl |-> pageUrls[Len(pageUrls) + 1 - index],
      frequency |-> frequency,
      createdAt |-> readings[3 * index - 1],
      nextCheck |-> readings[3 * index] + getFrequencyMs(frequency)]]

\* pageUrls.map(...): three clock readings per target, for the id, for
\* createdAt and for nextCheck
CreateTargets(websiteUrl, pageUrls, frequency, readings) ==
  [index \in 1..Len(pageUrls) |->
     [id |-> <<"target", readings[3 * index - 2], index - 1>>,
      websiteUrl |-> websiteUrl,
      pageUrl |-> pageUrls[index],
      frequency |-> frequency,
      createdAt |-> readings[3 * index - 1],
      nextCheck |-> readings[3 * index] + getFrequencyMs(frequency)]]

\* The clock readings of a run of the handler that starts at time start:
\* between two readings the clock stands still or advances by ticks[k]
RECURSIVE Readings(_, _)
Readings(start, ticks) ==
  IF ticks = <<>> THEN <<>>
  ELSE <<start + Head(ticks)>> \o Readings(start + Head(ticks), Tail(ticks))

InitSchedule ==
  /\ targets = <<>>
  /\ passNo = 0
  /\ idx = 0
  /\ results = <<>>
  /\ notifications = <<>>
  /\ trace = <<>>
  /\ summary = NoResponse
  /\ now = 1
  /\ \E body \in ScheduleBodies :
        /\ NormalBody(body)
        /\ call = [op |-> "schedule", body |-> body, done |-> FALSE,
                   status |-> 0, created |-> <<>>, readings |-> <<>>,
                   start |-> 1]

ScheduleRejected ==
  /\ call.op = "schedule"
  /\ ~call.done
  /\ ScheduleRejects(call.body)
  /\ call' = [call EXCEPT !.done = TRUE, !.status = 400]
  /\ UNCHANGED <<targets, passNo, idx, results, notifications, trace,
                 summary, now>>

ScheduleAccepted(ticks) ==
  /\ call.op = "schedule"
  /\ ~call.done
  /\ ~ScheduleRejects(call.body)
  /\ LET readings == Readings(now, ticks)
     IN  /\ call' = [call EXCEPT
               !.done = TRUE,
               !.status = 200,
               !.readings = readings,
               !.created = CreateTargets(call.body.websiteUrl,
                             call.body.pageUrls, FrequencyOf(call.body),
                             readings)]
         /\ now' = IF readings = <<>> THEN now ELSE readings[Len(readings)]
  /\ UNCHANGED <<targets, passNo, idx, results, notifications, trace, summary>>

NextSchedule ==
  \/ ScheduleRejected
  \/ \E ticks \in [1..(3 * Len(call.body.pageUrls)) -> 0..1] :
       ScheduleAccepted(ticks)

SpecSchedule == InitSchedule /\ [][NextSchedule]_vars

Scheduled == call.op = "schedule" /\ call.done /\ call.status = 200

C30_WitnessRejected ==
  /\ call.op = "schedule"
  /\ call.done
  /\ call.status = 400
  /\ call.body.hasWebsiteUrl
  /\ call.body.websiteUrl # ""
  /\ call.body.pageUrlsKind = "string"

(* C14: the interval of daily, weekly and monthly is exactly 1, 7 and 30   *)
(* days: 86400000, 604800000 and 2592000000 ms, here in units of 1000 ms.  *)
C14_FrequencyIntervals ==
  Scheduled =>
    \A i \in 1..Len(call.created) :
       LET interval == call.created[i].nextCheck - call.readings[3 * i]
       IN  /\ call.created[i].frequency = "daily" => interval = 86400
           /\ call.created[i].frequency = "weekly" => interval = 604800
           /\ call.created[i].frequency = "monthly" => interval = 2592000

C14_Witness ==
  /\ Scheduled
  /\ Len(call.created) >= 1
  /\ call.created[1].frequency = "monthly"
  /\ call.created[1].nextCheck - call.readings[3] = 2592000

----------------------------------------------------------------------------
(* CMS API (functions/cms-api): the serve handler and its routing          *)

NoHeader == [present |-> FALSE, value |-> ""]

Header(v) == [present |-> TRUE, value |-> v]

CmsMethods == {"OPTIONS", "GET", "POST", "DELETE"}

CmsPaths == {"/content-changes", "/content-changes/apply",
             "/monitoring-status", "/export-changes", "/webhook"}

CmsRequests ==
  { [method |-> m, path |-> p, xApiKey |-> x, authorization |-> a,
     bodyKind |-> b] :
       m \in CmsMethods, p \in CmsPaths,
       x \in {NoHeader, Header(""), Header("key_1")},
       a \in {NoHeader, Header("Bearer "), Header("Bearer key_1")},
       b \in {"invalid", "incomplete", "complete"} }

\* value.replace('Bearer ', '') on the header values of the model
StripBearer(v) ==
  CASE v = "Bearer " -> ""
    [] v = "Bearer key_1" -> "key_1"
    [] OTHER -> v

\* req.headers.get('X-API-Key') || req.headers.get('Authorization')?.replace(...)
\* ; null and undefined are rendered as the empty string, equally falsy
ApiKeyOf(req) ==
  IF req.xApiKey.present /\ req.xApiKey.value # ""
  THEN req.xApiKey.value
  ELSE IF req.authorization.present
       THEN StripBearer(req.authorization.value)
       ELSE ""

\* Variant: only requests that write need a key
KeyMissingOnWrites(req) == ApiKeyOf(req) = "" /\ req.method # "GET"

\* if (!apiKey)
KeyMissing(req) == ApiKeyOf(req) = ""

\* Route handling: the handler a path and method are dispatched to
RouteOf(req) ==
  CASE req.path = "/content-changes" /\ req.method = "GET" -> "getContentChanges"
    [] req.path = "/content-changes" /\ req.method = "POST" -> "createContentChange"
    [] req.path = "/monitoring-status" /\ req.method = "GET" -> "getMonitoringStatus"
    [] req.path = "/export-changes" /\ req.method = "GET" -> "exportChanges"
    [] req.path = "/webhook" /\ req.method = "POST" -> "handleWebhook"
    [] OTHER -> "none"

CmsResponse(status, handler, error, success, changeStatus) ==
  [status |-> status, handler |-> handler, error |-> error,
   success |-> success, changeStatus |-> changeStatus]

\* What the handler answers; a body that is not JSON makes req.json() throw,
\* which the outer catch turns into a 500
HandlerResponse(handler, req) ==
  CASE handler = "createContentChange" ->
         IF req.bodyKind = "invalid"
         THEN CmsResponse(500, handler, "Internal server error", FALSE, "")
         ELSE IF req.bodyKind = "incomplete"
         THEN CmsResponse(400, handler, "Missing required field", FALSE, "")
         ELSE CmsResponse(201, handler, "", TRUE, "pending")
    [] handler = "handleWebhook" ->
         IF req.bodyKind = "invalid"
         THEN CmsResponse(500, handler, "Internal server error", FALSE, "")
         ELSE CmsResponse(200, handler, "", TRUE, "")
    [] OTHER -> CmsResponse(200, handler, "", TRUE, "")

InitCms ==
  /\ targets = <<>>
  /\ passNo = 0
  /\ idx = 0
  /\ results = <<>>
  /\ notifications = <<>>
  /\ trace = <<>>
  /\ summary = NoResponse
  /\ now = 1
  /\ \E req \in CmsRequests :
        call = [op |-> "cms", req |-> req, done |-> FALSE,
                response |-> CmsResponse(0, "none", "", FALSE, "")]

CmsAnswer(response) ==
  /\ call' = [call EXCEPT !.done = TRUE, !.response = response]
  /\ UNCHANGED <<targets, passNo, idx, results, notifications, trace,
                 summary, now>>

CmsPreflight ==
  /\ call.op = "cms" /\ ~call.done
  /\ call.req.method = "OPTIONS"
  /\ CmsAnswer(CmsResponse(200, "none", "", FALSE, ""))

CmsUnauthorized ==
  /\ call.op = "cms" /\ ~call.done
  /\ call.req.method # "OPTIONS"
  /\ KeyMissing(call.req)
  /\ CmsAnswer(CmsResponse(401, "none", "API key required", FALSE, ""))

CmsHandled ==
  /\ call.op = "cms" /\ ~call.done
  /\ call.req.method # "OPTIONS"
  /\ ~KeyMissing(call.req)
  /\ RouteOf(call.req) # "none"
  /\ CmsAnswer(HandlerResponse(RouteOf(call.req), call.req))

CmsNotFound ==
  /\ call.op = "cms" /\ ~call.done
  /\ call.req.method # "OPTIONS"
  /\ ~KeyMissing(call.req)
  /\ RouteOf(call.req) = "none"
  /\ CmsAnswer(CmsResponse(404, "none", "Endpoint not found", FALSE, ""))

NextCms == CmsPreflight \/ CmsUnauthorized \/ CmsHandled \/ CmsNotFound

SpecCms == InitCms /\ [][NextCms]_vars

CmsAnswered == call.op = "cms" /\ call.done

(* C17: a non-OPTIONS request that carries neither an X-API-Key nor an     *)
(* Authorization header is answered 401 'API key required' and no endpoint *)
(* handler runs, whatever the path and method.                             *)
C17_ApiKeyRequired ==
  (CmsAnswered
   /\ call.req.method # "OPTIONS"
   /\ ~call.req.xApiKey.present
   /\ ~call.req.authorization.present)
    => /\ call.response.status = 401
       /\ call.response.error = "API key required"
       /\ call.response.handler = "none"

C17_Witness ==
  /\ CmsAnswered
  /\ call.req.method = "GET"
  /\ call.req.path = "/content-changes"
  /\ ~call.req.xApiKey.present
  /\ ~call.req.authorization.present
  /\ call.response.status = 401

(* C18: an authenticated POST to /content-changes/apply with a change_id   *)
(* is handled (not answered 404) and returns success with status           *)
(* 'applied'.                                                              *)
C18_ApplyChangesHandled ==
  (CmsAnswered
   /\ call.req.method = "POST"
   /\ call.req.path = "/content-changes/apply"
   /\ call.req.bodyKind = "complete"
   /\ ApiKeyOf(call.req) # "")
    => /\ call.response.status # 404
       /\ call.response.success
       /\ call.response.changeStatus = "applied"

----------------------------------------------------------------------------
(* isRecommendationImplemented on suggested texts with leading or trailing *)
(* whitespace, the empty text included                                     *)

MaxPaddedTokens == 3

PaddedText(tokens, lead, trail) ==
  (IF lead THEN <<" ", " ">> ELSE <<>>)
  \o JoinWords(tokens)
  \o (IF trail THEN <<"\t">> ELSE <<>>)

PaddedInputs ==
  UNION { { [op |-> "padded", tokens |-> t, letters |-> l,
             lead |-> ld, trail |-> tr,
             done |-> FALSE, verdict |-> FALSE] :
              t \in [1..n -> TokenLetters], l \in SUBSET BodyLetters,
              ld \in BOOLEAN, tr \in BOOLEAN } :
          n \in 0..MaxPaddedTokens }

InitPadded ==
  /\ targets = <<>>
  /\ passNo = 0
  /\ idx = 0
  /\ results = <<>>
  /\ notifications = <<>>
  /\ trace = <<>>
  /\ summary = NoResponse
  /\ now = 1
  /\ call \in PaddedInputs

EvaluatePadded ==
  /\ call.op = "padded"
  /\ ~call.done
  /\ call' = [call EXCEPT
       !.done = TRUE,
       !.verdict = isRecommendationImplemented(BodyOf(call.letters),
                     [id |-> "rec_001",
                      recommendedContent |->
                        PaddedText(call.tokens, call.lead, call.trail),
                      applied |-> FALSE])]
  /\ UNCHANGED <<targets, passNo, idx, results, notifications, trace,
                 summary, now>>

NextPadded == EvaluatePadded

SpecPadded == InitPadded /\ [][NextPadded]_vars

(* C21: empty tokens of the normalized suggested text count neither toward *)
(* the total nor toward the matched tokens: the verdict is that of the     *)
(* non-empty tokens alone (" a b " with only 'a' in the body is 1/2, not   *)
(* implemented).                                                           *)
C21_EmptyTokensDiscarded ==
  (call.op = "padded" /\ call.done /\ Len(call.tokens) > 0) =>
     (call.verdict <=> 10 * MatchedTokenCount >= 7 * Len(call.tokens))

(* C22: a suggested text with zero tokens is reported as implemented for   *)
(* every body text (no NaN outcome).                                       *)
C22_EmptyTextImplemented ==
  (call.op = "padded" /\ call.done /\ call.tokens = <<>>) => call.verdict

C22_Witness ==
  /\ call.op = "padded"
  /\ call.done
  /\ call.tokens = <<>>
  /\ ~call.lead
  /\ ~call.trail
  /\ call.letters = {"a", "b"}
  /\ call.verdict

----------------------------------------------------------------------------
(* Successive passes with a record of what earlier passes reported         *)

MaxHistoryTargets == 1

HistoryTargetLists == { t \in TargetLists : Len(t) <= MaxHistoryTargets }

\* The <<target id, recommendation id>> pairs that the implementation-
\* success notifications of the pass just served name
NoticedPairs ==
  LET pairs == UNION { { <<targets[i].id, targets[i].recommendations[j].id>> :
                           j \in 1..Len(targets[i].recommendations) } :
                       i \in 1..Len(targets) }
  IN  { pair \in pairs : NoticedImplemented(pair[1], pair[2]) }

InitHistory ==
  /\ targets \in HistoryTargetLists
  /\ passNo = 0
  /\ idx = 0
  /\ results = <<>>
  /\ notifications = <<>>
  /\ trace = <<>>
  /\ summary = NoResponse
  /\ now = 1
  /\ call = [op |-> "history", noticed |-> {}]

\* The next POST /monitor arrives: what the pass before it reported is
\* added to the record
StartPassLogged ==
  /\ call.op = "history"
  /\ StartPassBody
  /\ call' = [call EXCEPT !.noticed = @ \cup NoticedPairs]

NextHistory ==
  \/ StartPassLogged
  \/ CheckFails
  \/ \E page \in Pages, implSendThrows \in BOOLEAN, alertSendThrows \in BOOLEAN :
       CheckSucceeds(page, implSendThrows, alertSendThrows)
  \/ FinishPass

SpecHistory == InitHistory /\ [][NextHistory]_vars

(* C28: over any sequence of passes, a recommendation of a target that an  *)
(* implementation-success notification of one pass reports is reported by  *)
(* no implementation-success notification of a later pass.                 *)
C28_AtMostOnceNotice ==
  call.op = "history" =>
    \A pair \in call.noticed : ~NoticedImplemented(pair[1], pair[2])

====
